---- MODULE Spec2Model ----
(***************************************************************************)
(* Model of src/src/AlignmentTool.tsx: the AlignmentTool React component.  *)
(*                                                                         *)
(* A JavaScript string is modelled as a sequence of one-character strings. *)
(* The component state (useState hooks, lines 73-77) is the variables      *)
(* seq1, seq2, error, showAlignment, toastVisible; the media query of line *)
(* 135 is isMobile; the JSX of lines 260-264 is the variable chunks, which *)
(* every handler recomputes because React re-renders after a state change. *)
(***************************************************************************)
EXTENDS Integers, Sequences, FiniteSets, TLC

VARIABLES
    seq1,           \* useState("")    line 73
    seq2,           \* useState("")    line 74
    error,          \* useState("")    line 75
    showAlignment,  \* useState(false) line 76
    toastVisible,   \* useState(false) line 77
    isMobile,       \* useMediaQuery(theme.breakpoints.down("sm")), line 135
    chunks,         \* what lines 260-264 put on screen: the chunk list, or <<>>
    pendingCopies,  \* clipboard.writeText promises not yet settled (line 97)
    timers,         \* pending setTimeout callbacks of line 101: ms remaining
    sinceCopy,      \* history: ms elapsed since the last successful copy
    hist,           \* history: the last UI event and the state it acted on
    chunkSize,      \* render harness: chunk size of the last direct render
    prevChunkSize,  \* render harness: chunk size of the direct render before it
    prevChunks,     \* render harness: result of the direct render before it
    renders         \* render harness: number of direct renders done

vars == <<seq1, seq2, error, showAlignment, toastVisible, isMobile, chunks,
          pendingCopies, timers, sinceCopy, hist,
          chunkSize, prevChunkSize, prevChunks, renders>>

uiVars == <<seq1, seq2, error, showAlignment, isMobile, chunks, hist>>
toastVars == <<toastVisible, pendingCopies, timers, sinceCopy>>
harnessVars == <<chunkSize, prevChunkSize, prevChunks, renders>>

(***************************************************************************)
(* Bounds of the model.                                                    *)
(***************************************************************************)
MaxLen == 2         \* longest raw text typed into a field
MaxRenderLen == 3   \* longest exhaustively enumerated renderer input
MaxChunk == 3       \* chunk sizes 1..MaxChunk are tried besides 9 and 20
MaxPending == 2     \* clipboard writes in flight at once
MaxTimers == 2      \* hide timers pending at once
TickMs == 500       \* granularity of the clock

Min(a, b) == IF a < b THEN a ELSE b
Max(a, b) == IF a > b THEN a ELSE b

(***************************************************************************)
(* Characters and strings.                                                 *)
(***************************************************************************)
\* The character class of the two regular expressions, lines 30 and 183.
Alphabet == {"A", "R", "N", "D", "C", "E", "Q", "G", "H", "I", "L", "K",
             "M", "F", "P", "S", "T", "W", "Y", "V", "-"}

LowerCase == <<"a", "b", "c", "d", "e", "f", "g", "h", "i", "j", "k", "l", "m",
               "n", "o", "p", "q", "r", "s", "t", "u", "v", "w", "x", "y", "z">>
UpperCase == <<"A", "B", "C", "D", "E", "F", "G", "H", "I", "J", "K", "L", "M",
               "N", "O", "P", "Q", "R", "S", "T", "U", "V", "W", "X", "Y", "Z">>

\* String.prototype.toUpperCase on the ASCII letters, as a table.
UpperOf == [c \in {LowerCase[i] : i \in 1..Len(LowerCase)} |->
              UpperCase[CHOOSE i \in 1..Len(LowerCase) : LowerCase[i] = c]]

\* String.prototype.toUpperCase on one ASCII character.
upperChar(c) == IF c \in DOMAIN UpperOf THEN UpperOf[c] ELSE c

\* e.target.value.toUpperCase(), line 182.
toUpperCase(s) == [i \in 1..Len(s) |-> upperChar(s[i])]

\* Canonicalize of a regular expression with the i flag (no u flag).
Canonicalize(c) == upperChar(c)

\* Does /[^ARNDCEQGHILKMFPSTWYV\-]/gi match (and so remove) character c?
\* With the i flag a character is in the class when its canonical form is
\* the canonical form of a member, so lower-case letters are in it too.
CanonicalAlphabet == {Canonicalize(a) : a \in Alphabet}
regexRemoves(c) == Canonicalize(c) \notin CanonicalAlphabet

RECURSIVE replaceInvalid(_)
\* value.replace(/[^ARNDCEQGHILKMFPSTWYV\-]/gi, ""), line 183.
replaceInvalid(s) ==
    IF s = <<>> THEN <<>>
    ELSE (IF regexRemoves(Head(s)) THEN <<>> ELSE <<Head(s)>>)
         \o replaceInvalid(Tail(s))

\* A mutant of sanitize: the upper-casing of line 182 is left out.
sanitizeNoUpper(raw) == replaceInvalid(raw)

\* Lines 182-183 of handleSeqChange: the value the setter receives.
sanitize(raw) == replaceInvalid(toUpperCase(raw))

\* /^[ARNDCEQGHILKMFPSTWYV\-]+$/.test(seq), lines 29-30 (no i flag).
isValidSequence(seq) ==
    /\ Len(seq) >= 1
    /\ \A i \in 1..Len(seq) : seq[i] \in Alphabet

\* String.prototype.slice(a, b) for 0 <= a <= b, 0-based, end exclusive.
slice(s, a, b) == SubSeq(s, a + 1, Min(b, Len(s)))

(***************************************************************************)
(* The colour table and the diff renderer, lines 6-27 and 134-176.         *)
(***************************************************************************)
\* const aminoAcidColors: Record<string, string>, lines 6-27.
aminoAcidColors ==
    "A" :> "#67e446" @@ "R" :> "#bb99ff" @@ "N" :> "#80bfff" @@
    "D" :> "#fc9cac" @@ "C" :> "#ffeao0" @@ "E" :> "#fc9cac" @@
    "Q" :> "#80bfff" @@ "G" :> "#c4c4c4" @@ "H" :> "#80bfff" @@
    "I" :> "#67e446" @@ "L" :> "#67e446" @@ "K" :> "#bb99ff" @@
    "M" :> "#67e446" @@ "F" :> "#67e446" @@ "P" :> "#67e446" @@
    "S" :> "#80bfff" @@ "T" :> "#80bfff" @@ "W" :> "#67e446" @@
    "Y" :> "#67e446" @@ "V" :> "#67e446"

\* The fallback of lines 149 and 163.
FallbackColor == "#FFF"

\* A mutant of colorOf: a missing key draws no colour instead of the fallback.
colorOfNoFallback(char) ==
    IF char \in DOMAIN aminoAcidColors THEN aminoAcidColors[char]
    ELSE "transparent"

\* aminoAcidColors[char] || "#FFF": a missing key reads as undefined.
colorOf(char) ==
    IF char \in DOMAIN aminoAcidColors THEN aminoAcidColors[char]
    ELSE FallbackColor

\* const CHUNK_SIZE = isMobile ? 9 : 20, line 136.
CHUNK_SIZE(mobile) == IF mobile THEN 9 ELSE 20

\* The first ChunkedRow, lines 145-154.
row1(chunk1) ==
    [idx \in 1..Len(chunk1) |->
        [char |-> chunk1[idx], bgcolor |-> colorOf(chunk1[idx])]]

\* chunk1[idx], line 157: undefined past the end of chunk1.
refCharAt(chunk1, idx) ==
    IF idx <= Len(chunk1) THEN chunk1[idx] ELSE "undefined"

\* A mutant of row2: a differing position takes the colour of refChar.
row2RefColor(chunk1, chunk2) ==
    [idx \in 1..Len(chunk2) |->
        [char |-> chunk2[idx],
         bgcolor |-> IF chunk2[idx] # refCharAt(chunk1, idx)
                     THEN colorOf(refCharAt(chunk1, idx))
                     ELSE "transparent"]]

\* The second ChunkedRow, lines 155-171.
row2(chunk1, chunk2) ==
    [idx \in 1..Len(chunk2) |->
        [char |-> chunk2[idx],
         bgcolor |-> IF chunk2[idx] # refCharAt(chunk1, idx)
                     THEN colorOf(chunk2[idx])
                     ELSE "transparent"]]

\* A mutant of chunkAt: seq1 is sliced from 0, not from i.
chunkAtFromZero(s1, s2, C, i) ==
    [key |-> i,
     row1 |-> row1(slice(s1, i, i + C)),
     row2 |-> row2(slice(s1, 0, C), slice(s2, i, i + C))]

\* One iteration of the loop body, lines 141-173: the Box pushed for offset i.
chunkAt(s1, s2, C, i) ==
    [key |-> i,
     row1 |-> row1(slice(s1, i, i + C)),
     row2 |-> row2(slice(s1, i, i + C), slice(s2, i, i + C))]

RECURSIVE renderFromNoTail(_, _, _, _)
\* A mutant of renderFrom: the loop stops before a shorter last window.
renderFromNoTail(s1, s2, C, i) ==
    IF i + C <= Len(s1)
    THEN <<chunkAt(s1, s2, C, i)>> \o renderFromNoTail(s1, s2, C, i + C)
    ELSE <<>>

RECURSIVE renderFrom(_, _, _, _)
\* for (let i = ...; i < seq1.length; i += CHUNK_SIZE), line 140, from offset i.
renderFrom(s1, s2, C, i) ==
    IF i < Len(s1)
    THEN <<chunkAt(s1, s2, C, i)>> \o renderFrom(s1, s2, C, i + C)
    ELSE <<>>

\* renderAlignment, lines 138-176, with CHUNK_SIZE of its closure as C.
renderAlignment(s1, s2, C) == renderFrom(s1, s2, C, 0)

\* {showAlignment && <Grid id="amino-list">...}, lines 260-264.
View(s1, s2, show, mobile) ==
    IF show THEN renderAlignment(s1, s2, CHUNK_SIZE(mobile)) ELSE <<>>

(***************************************************************************)
(* The form handlers, lines 114-132 and 178-194.                           *)
(***************************************************************************)
\* The three messages of setError, lines 117, 122 and 127 (transliterated).
MsgRequired == "Obe posledovatelnosti obyazatelny dlya zapolneniya."
MsgAlphabet == "Posledovatelnosti mogut soderzhat tolko dopustimye simvoly."
MsgLength == "Posledovatelnosti dolzhny byt odinakovoy dliny."

\* A mutant of submitError: the length test of line 126 is left out.
submitErrorNoLength(s1, s2) ==
    IF s1 = <<>> \/ s2 = <<>> THEN MsgRequired
    ELSE IF ~isValidSequence(s1) \/ ~isValidSequence(s2) THEN MsgAlphabet
    ELSE ""

\* A mutant of submitError: the alphabet test runs before the emptiness test.
submitErrorAlphabetFirst(s1, s2) ==
    IF ~isValidSequence(s1) \/ ~isValidSequence(s2) THEN MsgAlphabet
    ELSE IF s1 = <<>> \/ s2 = <<>> THEN MsgRequired
    ELSE IF Len(s1) # Len(s2) THEN MsgLength
    ELSE ""

\* The if chain of handleSubmit, lines 116-130: the value error ends with.
submitError(s1, s2) ==
    IF s1 = <<>> \/ s2 = <<>> THEN MsgRequired
    ELSE IF ~isValidSequence(s1) \/ ~isValidSequence(s2) THEN MsgAlphabet
    ELSE IF Len(s1) # Len(s2) THEN MsgLength
    ELSE ""

\* History kept for the properties: the last form event, the one before it,
\* and what the form showed when the last event arrived.
Record(event, same, altered) ==
    [event |-> event, prevEvent |-> hist.event,
     show |-> showAlignment, error |-> error,
     same |-> same, altered |-> altered]

\* handleSubmit, lines 114-132.
HandleSubmit ==
    /\ error' = submitError(seq1, seq2)
    /\ showAlignment' = (submitError(seq1, seq2) = "")
    /\ chunks' = View(seq1, seq2, showAlignment', isMobile)
    /\ hist' = Record("submit", TRUE, hist.altered)
    /\ UNCHANGED <<seq1, seq2, isMobile, toastVars, harnessVars>>

\* A mutant of HandleSeqChange: nothing is cleared when the value is unchanged.
HandleSeqChangeBailOut(field, raw) ==
    /\ seq1' = IF field = 1 THEN sanitize(raw) ELSE seq1
    /\ seq2' = IF field = 2 THEN sanitize(raw) ELSE seq2
    /\ IF seq1' = seq1 /\ seq2' = seq2
       THEN UNCHANGED <<showAlignment, error>>
       ELSE showAlignment' = FALSE /\ error' = ""
    /\ chunks' = View(seq1', seq2', showAlignment', isMobile)
    /\ hist' = Record(IF field = 1 THEN "change1" ELSE "change2",
                      sanitize(raw) = (IF field = 1 THEN seq1 ELSE seq2),
                      sanitize(raw) # raw)
    /\ UNCHANGED <<isMobile, toastVars, harnessVars>>

\* handleSeqChange(e, setter), lines 178-187; field 1 is setSeq1 (line 223),
\* field 2 is setSeq2 (line 232); raw is e.target.value.
HandleSeqChange(field, raw) ==
    /\ seq1' = IF field = 1 THEN sanitize(raw) ELSE seq1
    /\ seq2' = IF field = 2 THEN sanitize(raw) ELSE seq2
    /\ showAlignment' = FALSE
    /\ error' = ""
    /\ chunks' = View(seq1', seq2', showAlignment', isMobile)
    /\ hist' = Record(IF field = 1 THEN "change1" ELSE "change2",
                      sanitize(raw) = (IF field = 1 THEN seq1 ELSE seq2),
                      sanitize(raw) # raw)
    /\ UNCHANGED <<isMobile, toastVars, harnessVars>>

\* A mutant of HandleClear: the second field is not reset.
HandleClearFirstOnly ==
    /\ seq1' = <<>>
    /\ error' = ""
    /\ showAlignment' = FALSE
    /\ chunks' = View(seq1', seq2, showAlignment', isMobile)
    /\ hist' = Record("clear", seq1 = <<>> /\ seq2 = <<>>, FALSE)
    /\ UNCHANGED <<seq2, isMobile, toastVars, harnessVars>>

\* handleClear, lines 189-194.
HandleClear ==
    /\ seq1' = <<>>
    /\ seq2' = <<>>
    /\ error' = ""
    /\ showAlignment' = FALSE
    /\ chunks' = View(seq1', seq2', showAlignment', isMobile)
    /\ hist' = Record("clear", seq1 = <<>> /\ seq2 = <<>>, FALSE)
    /\ UNCHANGED <<isMobile, toastVars, harnessVars>>

\* The viewport crosses the "sm" breakpoint: useMediaQuery re-renders, line 135.
Resize ==
    /\ isMobile' = ~isMobile
    /\ chunks' = View(seq1, seq2, showAlignment, isMobile')
    /\ UNCHANGED <<seq1, seq2, error, showAlignment, hist, toastVars, harnessVars>>

(***************************************************************************)
(* The selection-copy notifier, lines 79-112.                              *)
(***************************************************************************)
\* setTimeout(..., 1000), line 101.
ToastDelay == 1000

\* String.prototype.trim().length === 0 on a text of blanks and letters.
trimIsEmpty(text) == \A i \in 1..Len(text) : text[i] = " "

\* Texts window.getSelection().toString() may hold; <<>> also stands for no selection.
Selections == {<<>>, <<" ">>, <<"A">>}

\* Does onMouseUp reach navigator.clipboard.writeText, lines 81-95?
\* The container (getElementById("amino-list")) exists when the diff is shown.
copyStarts(text, anchorInside, focusInside) ==
    /\ ~trimIsEmpty(text)
    /\ showAlignment
    /\ anchorInside /\ focusInside

\* onMouseUp up to its await, lines 80-97.
MouseUp(text, anchorInside, focusInside) ==
    /\ pendingCopies < MaxPending
    /\ pendingCopies' = IF copyStarts(text, anchorInside, focusInside)
                        THEN pendingCopies + 1 ELSE pendingCopies
    /\ UNCHANGED <<toastVisible, timers, sinceCopy, uiVars, harnessVars>>

\* writeText resolved: the continuation of onMouseUp, lines 100-101.
CopyResolved ==
    /\ pendingCopies > 0
    /\ Len(timers) < MaxTimers
    /\ pendingCopies' = pendingCopies - 1
    /\ toastVisible' = TRUE
    /\ timers' = Append(timers, ToastDelay)
    /\ sinceCopy' = 0
    /\ UNCHANGED <<uiVars, harnessVars>>

\* writeText rejected: the catch of lines 102-104 only warns.
CopyRejected ==
    /\ pendingCopies > 0
    /\ pendingCopies' = pendingCopies - 1
    /\ UNCHANGED <<toastVisible, timers, sinceCopy, uiVars, harnessVars>>

\* An expired timer runs its callback () => setToastVisible(false), line 101.
TimerFires(k) ==
    /\ k \in 1..Len(timers)
    /\ timers[k] = 0
    /\ toastVisible' = FALSE
    /\ timers' = SubSeq(timers, 1, k - 1) \o SubSeq(timers, k + 1, Len(timers))
    /\ UNCHANGED <<pendingCopies, sinceCopy, uiVars, harnessVars>>

\* TickMs milliseconds pass; an expired timer may still be waiting to run.
Tick ==
    /\ timers' = [k \in 1..Len(timers) |-> Max(0, timers[k] - TickMs)]
    /\ sinceCopy' = Min(ToastDelay, sinceCopy + TickMs)
    /\ UNCHANGED <<toastVisible, pendingCopies, uiVars, harnessVars>>

(***************************************************************************)
(* Inputs.                                                                 *)
(***************************************************************************)
Strings(S, n) == UNION {[1..k -> S] : k \in 0..n}

\* Characters a user types: an alphabet letter, the same letter in lower
\* case, the gap, and a character outside the alphabet.
RawChars == {"A", "a", "-", "1"}
RawTexts == Strings(RawChars, MaxLen)

\* Characters of renderer inputs: two letters of different colour and the gap.
RenderChars == {"A", "D", "-"}

\* s repeated cyclically to length n.
Cycle(s, n) == [k \in 1..n |-> s[((k - 1) % Len(s)) + 1]]

\* Lengths that span several chunks of size 9 and 20 (45 = 20 + 20 + 5).
LongLengths == {18, 21, 45}
LongPatterns == {<<"A", "D">>, <<"D", "A">>, <<"A", "-", "D">>, <<"x", "A">>}
LongTexts == {Cycle(p, n) : p \in LongPatterns, n \in LongLengths}

\* Equal-length pairs handed to the renderer.
RenderPairs ==
    {p \in Strings(RenderChars, MaxRenderLen) \X Strings(RenderChars, MaxRenderLen) :
        Len(p[1]) = Len(p[2])}
    \cup {p \in LongTexts \X LongTexts : Len(p[1]) = Len(p[2])}

ChunkSizes == (1..MaxChunk) \cup {CHUNK_SIZE(TRUE), CHUNK_SIZE(FALSE)}

NoHist == [event |-> "init", prevEvent |-> "init", show |-> FALSE, error |-> "",
           same |-> TRUE, altered |-> FALSE]

(***************************************************************************)
(* Spec: the form driven by UI events from the mounted component.          *)
(***************************************************************************)
ToastIdle ==
    /\ toastVisible = FALSE
    /\ pendingCopies = 0
    /\ timers = <<>>
    /\ sinceCopy = ToastDelay

HarnessIdle ==
    /\ chunkSize = 0
    /\ prevChunkSize = 0
    /\ prevChunks = <<>>
    /\ renders = 0

\* The state after the first render, lines 73-77.
Init ==
    /\ seq1 = <<>>
    /\ seq2 = <<>>
    /\ error = ""
    /\ showAlignment = FALSE
    /\ isMobile \in BOOLEAN
    /\ chunks = <<>>
    /\ hist = NoHist
    /\ ToastIdle
    /\ HarnessIdle

Next ==
    \/ \E field \in {1, 2}, raw \in RawTexts : HandleSeqChange(field, raw)
    \/ HandleSubmit
    \/ HandleClear
    \/ Resize

Spec == Init /\ [][Next]_vars

(***************************************************************************)
(* SpecInjected: the same form, started with arbitrary stored strings (the *)
(* state set directly, not typed), so that handleSubmit meets every rule.  *)
(***************************************************************************)
InitInjected ==
    /\ seq1 \in RawTexts
    /\ seq2 \in RawTexts
    /\ error = ""
    /\ showAlignment = FALSE
    /\ isMobile \in BOOLEAN
    /\ chunks = <<>>
    /\ hist = NoHist
    /\ ToastIdle
    /\ HarnessIdle

NextInjected ==
    \/ HandleSubmit
    \/ HandleClear

SpecInjected == InitInjected /\ [][NextInjected]_vars

(***************************************************************************)
(* SpecToast: mouse-up gestures, clipboard promises and hide timers, over  *)
(* a form that is either freshly mounted or showing a diff.                *)
(***************************************************************************)
InitToast ==
    /\ seq1 \in Strings(RenderChars, MaxLen)
    /\ seq2 \in Strings(RenderChars, MaxLen)
    /\ error = ""
    /\ \/ seq1 = <<>> /\ seq2 = <<>> /\ showAlignment = FALSE /\ hist = NoHist
       \/ /\ submitError(seq1, seq2) = ""
          /\ showAlignment = TRUE
          /\ hist = [event |-> "submit", prevEvent |-> "change2", show |-> FALSE,
                     error |-> "", same |-> TRUE, altered |-> FALSE]
    /\ isMobile = FALSE
    /\ chunks = View(seq1, seq2, showAlignment, isMobile)
    /\ ToastIdle
    /\ HarnessIdle

NextToast ==
    \/ \E text \in Selections, a \in BOOLEAN, f \in BOOLEAN : MouseUp(text, a, f)
    \/ CopyResolved
    \/ CopyRejected
    \/ \E k \in 1..MaxTimers : TimerFires(k)
    \/ Tick

SpecToast == InitToast /\ [][NextToast]_vars

(***************************************************************************)
(* SpecRender: renderAlignment applied directly to equal-length pairs with *)
(* a chosen chunk size, twice in a row.                                    *)
(***************************************************************************)
InitRender ==
    /\ \E p \in RenderPairs : seq1 = p[1] /\ seq2 = p[2]
    /\ error = ""
    /\ showAlignment = FALSE
    /\ isMobile = FALSE
    /\ chunks = <<>>
    /\ hist = NoHist
    /\ ToastIdle
    /\ HarnessIdle

\* {renderAlignment(seq1, seq2)}, line 262, with CHUNK_SIZE = C.
RenderWith(C) ==
    /\ renders < 2
    /\ chunks' = renderAlignment(seq1, seq2, C)
    /\ prevChunks' = chunks
    /\ chunkSize' = C
    /\ prevChunkSize' = chunkSize
    /\ renders' = renders + 1
    /\ UNCHANGED <<seq1, seq2, error, showAlignment, isMobile, hist, toastVars>>

NextRender == \E C \in ChunkSizes : RenderWith(C)

SpecRender == InitRender /\ [][NextRender]_vars

(***************************************************************************)
(* Properties.                                                             *)
(***************************************************************************)
HasBadChar(s) == \E i \in 1..Len(s) : s[i] \notin Alphabet

\* C1: Compare classifies the stored pair by the first failing rule, in the
\* order empty, bad alphabet, length mismatch, valid; one outcome results and
\* on a failure error holds exactly that rule's message.
C1_SubmitClassifiesInOrder ==
    hist.event = "submit" =>
        IF seq1 = <<>> \/ seq2 = <<>>
        THEN error = MsgRequired /\ ~showAlignment
        ELSE IF HasBadChar(seq1) \/ HasBadChar(seq2)
        THEN error = MsgAlphabet /\ ~showAlignment
        ELSE IF Len(seq1) # Len(seq2)
        THEN error = MsgLength /\ ~showAlignment
        ELSE error = "" /\ showAlignment

\* C1 witness: seq1 empty and seq2 holding a bad character gave MissingInput.
C1_Witness ==
    /\ hist.event = "submit"
    /\ seq1 = <<>>
    /\ HasBadChar(seq2)
    /\ error = MsgRequired

\* C2: after any sequence of edits, Compare and Clear from the initial state
\* both stored sequences hold only alphabet symbols (upper case), and the
\* bad-alphabet message is never the outcome of Compare.
C2_StoredSequencesInAlphabet ==
    /\ ~HasBadChar(seq1)
    /\ ~HasBadChar(seq2)
    /\ error # MsgAlphabet

\* C2 witness: Compare ran on two non-empty fields after an edit whose raw
\* text the sanitizer had to change.
C2_Witness ==
    /\ hist.event = "submit"
    /\ hist.altered
    /\ seq1 # <<>>
    /\ seq2 # <<>>

\* C3: an edit of either field leaves no diff and no error, also when the
\* value did not change; a diff is on screen only after a successful Compare
\* that no edit or Clear has followed.
C3_EditClearsDiffAndError ==
    /\ hist.event \in {"change1", "change2"} =>
           ~showAlignment /\ error = "" /\ chunks = <<>>
    /\ showAlignment => hist.event = "submit" /\ submitError(seq1, seq2) = ""

\* C3 witness: an edit that stored the value already there, while a diff was shown.
C3_Witness ==
    /\ hist.event \in {"change1", "change2"}
    /\ hist.show
    /\ hist.same

\* C4: Clear returns the form to its initial state, and a Compare right after
\* Clear reports the missing input.
C4_ClearResetsForm ==
    /\ hist.event = "clear" =>
           /\ seq1 = <<>> /\ seq2 = <<>>
           /\ error = "" /\ ~showAlignment /\ chunks = <<>>
    /\ hist.event = "submit" /\ hist.prevEvent = "clear" =>
           error = MsgRequired /\ ~showAlignment

\* C4 witness: Clear pressed on a non-empty form that was showing a diff.
C4_Witness ==
    /\ hist.event = "clear"
    /\ hist.show
    /\ ~hist.same

RECURSIVE SumLen(_, _)
\* Total length of the rows named field of a chunk list.
SumLen(cs, field) ==
    IF cs = <<>> THEN 0 ELSE Len(Head(cs)[field]) + SumLen(Tail(cs), field)

\* C5: for a non-empty valid equal-length pair of length n and chunk size C
\* the renderer returns ceil(n / C) chunks, at least one, of total length n;
\* all but the last have length C, the last has C or n mod C; the two rows of
\* a chunk are equally long.
C5_ChunkPartition ==
    (renders >= 1 /\ isValidSequence(seq1) /\ isValidSequence(seq2)) =>
        LET n == Len(seq1)
            C == chunkSize
            m == Len(chunks)
        IN  /\ m >= 1
            /\ m = (n + C - 1) \div C
            /\ SumLen(chunks, "row1") = n
            /\ SumLen(chunks, "row2") = n
            /\ \A k \in 1..(m - 1) : Len(chunks[k].row1) = C
            /\ Len(chunks[m].row1) = IF n % C = 0 THEN C ELSE n % C
            /\ \A k \in 1..m : Len(chunks[k].row1) = Len(chunks[k].row2)

\* C5 witness: a valid pair of length 45 rendered with chunk size 20 as 20, 20, 5.
C5_Witness ==
    /\ renders >= 1
    /\ isValidSequence(seq1)
    /\ Len(seq1) = 45
    /\ chunkSize = 20
    /\ Len(chunks) = 3
    /\ Len(chunks[3].row1) = 5

\* The cell drawn for global position i (from 1) of the row named field.
CellAt(cs, C, field, i) == cs[((i - 1) \div C) + 1][field][((i - 1) % C) + 1]

\* C6: at every global position i the colour of the sequence-2 cell is
\* "transparent" exactly when seq1[i] = seq2[i]; otherwise it is the table
\* colour of seq2[i], or "#FFF" when seq2[i] has no entry.
C6_Row2ColourByGlobalIndex ==
    renders >= 1 =>
        \A i \in 1..Len(seq2) :
            LET cell == CellAt(chunks, chunkSize, "row2", i)
            IN  /\ cell.char = seq2[i]
                /\ (cell.bgcolor = "transparent") <=> (seq1[i] = seq2[i])
                /\ seq1[i] # seq2[i] =>
                       cell.bgcolor = IF seq2[i] \in DOMAIN aminoAcidColors
                                      THEN aminoAcidColors[seq2[i]]
                                      ELSE "#FFF"

\* C6 witness: in a chunk after the first, seq2 differs from seq1 at one
\* position and agrees with it at another.
C6_Witness ==
    /\ renders >= 1
    /\ \E i \in (chunkSize + 1)..Len(seq2) :
           /\ seq1[i] # seq2[i]
           /\ seq2[i] \in DOMAIN aminoAcidColors
           /\ seq1[i] \in DOMAIN aminoAcidColors
    /\ \E i \in (chunkSize + 1)..Len(seq2) : seq1[i] = seq2[i]

\* Is the fallback colour drawn anywhere in a chunk list?
UsesFallback(cs) ==
    \E k \in 1..Len(cs) :
        \/ \E i \in 1..Len(cs[k].row1) : cs[k].row1[i].bgcolor = FallbackColor
        \/ \E i \in 1..Len(cs[k].row2) : cs[k].row2[i].bgcolor = FallbackColor

RECURSIVE Flatten(_, _)
\* The rows named field of a chunk list, concatenated.
Flatten(cs, field) ==
    IF cs = <<>> THEN <<>> ELSE Head(cs)[field] \o Flatten(Tail(cs), field)

\* C8: two renders of one pair, with any two chunk sizes, give the same
\* concatenated (symbol, colour) rows for sequence 1 and for sequence 2.
C8_ChunkSizeOnlyPartitions ==
    renders = 2 =>
        /\ Flatten(chunks, "row1") = Flatten(prevChunks, "row1")
        /\ Flatten(chunks, "row2") = Flatten(prevChunks, "row2")

\* C8 witness: a pair longer than 20 with a difference, rendered with chunk
\* size 9 and then with chunk size 20.
C8_Witness ==
    /\ renders = 2
    /\ prevChunkSize = 9
    /\ chunkSize = 20
    /\ Len(seq1) > 20
    /\ seq1 # seq2
    /\ Len(prevChunks) > Len(chunks)

\* C9: from every successful copy the toast stays visible for the full
\* ToastDelay, whatever other copies and timers are in flight.
C9_ToastStaysForFullDelay ==
    sinceCopy < ToastDelay => toastVisible

\* C10: while the diff is displayed no error is shown and the stored pair is
\* non-empty, alphabet-valid and of equal length; nothing is rendered
\* otherwise.
C10_DiffOnlyForValidPair ==
    /\ showAlignment =>
           /\ error = ""
           /\ seq1 # <<>> /\ seq2 # <<>>
           /\ ~HasBadChar(seq1) /\ ~HasBadChar(seq2)
           /\ Len(seq1) = Len(seq2)
    /\ ~showAlignment => chunks = <<>>
    /\ ~(error # "" /\ chunks # <<>>)

\* C10 witness: Compare pressed again while a diff of two different
\* sequences was shown, and the diff is shown again.
C10_Witness ==
    /\ showAlignment
    /\ hist.event = "submit"
    /\ hist.show
    /\ seq1 # seq2
    /\ chunks # <<>>

====
